---- MODULE Spec2Model ----
(***************************************************************************)
(* A model of src/index.js (apify-etl-lib): the dataset pipeline           *)
(* processDataset = getDataset -> normalize -> load -> archive, with the   *)
(* file moves and the recursive copy of archive, and the scrape trigger    *)
(* with its schedule options.                                              *)
(*                                                                         *)
(* Spec        the pipeline: runs of processDataset over a small file      *)
(*             system, every awaited external call settling either way.    *)
(* SpecScrape  calls of scrape(options, config) on one config object.      *)
(***************************************************************************)
EXTENDS Integers, Sequences, FiniteSets, TLC

\* ------------------------------------------------------------------ bounds

\* Runs of processDataset in one behaviour.
MaxRuns == 2
\* Calls of scrape in one behaviour.
MaxCalls == 2
\* Calendar days are numbered 1..MaxDay.
MaxDay == 2

\* ------------------------------------------------------------ file system

\* Entry names of a working directory: options.DATA_FILE and one other entry.
DATA_FILE == "data.json"
Files == {DATA_FILE, "other"}

\* The directories of a run: RAW_DATA_DIR, NORMALIZED_DATA_DIR, DOWNLOAD_DIR
\* and the three archive destinations of archive().
Dirs == {"raw", "norm", "dl", "aRaw", "aNorm", "aDl"}

\* File contents: no entry, the data of run r (0: left by an earlier
\* process), or the text fs.writeFile makes of an undefined buffer.
Absent == <<"absent", 0>>
Data(r) == <<"data", r>>
UndefinedText == <<"undefined", 0>>

EmptyDir == [f \in Files |-> Absent]
StaleDir(S) == [f \in Files |-> IF f \in S THEN Data(0) ELSE Absent]
Entries(d) == {f \in Files : d[f] # Absent}

\* The two relocations archive() starts, by source directory.
Moves == {"raw", "norm"}
Dest(i) == IF i = "raw" THEN "aRaw" ELSE "aNorm"

Stages == <<"Acquire", "Normalize", "Load", "Archive">>
StageSet == {Stages[k] : k \in 1..Len(Stages)}

VARIABLES
    run,        \* number of processDataset runs started
    pc,         \* where the current run of processDataset is suspended
    started,    \* stages started in the current run, in order
    stageResult,\* per stage of the current run: none, running, ok, err
    fs,         \* directory -> entry -> content
    exists,     \* directories that exist
    skip,       \* options.SKIP_ARCHIVE_DOWNLOAD
    fileData,   \* downloadDataset's fileData: "undefined" or "data"
    mv,         \* per relocation: position of that moveFilesToDir call
    listed,     \* per relocation: the source directory as readdir found it
    pending,    \* renames issued and not settled: <<relocation, entry>>
    failed,     \* renames of the current run that rejected
    unhandled,  \* those of them that rejected with no handler attached
    errLog,     \* log.error calls of the current run, by the operation logging
    copies      \* recursiveCopy calls started in the current run

pipeVars == <<run, pc, started, stageResult, fs, exists, skip, fileData, mv,
              listed, pending, failed, unhandled, errLog, copies>>

VARIABLES
    today,      \* the current calendar day (a day number)
    input,      \* config.INPUT, the object scrape() is handed
    base,       \* the template as the caller wrote it (never assigned after Init)
    before,     \* config.INPUT as it was when the last scrape call began
    callOpts,   \* the options of the last scrape call
    spc,        \* position of the last scrape call
    posts,      \* payloads handed to axios.post by the last scrape call
    invalidLogged, \* the last call logged 'Invalid command!'
    calls       \* number of scrape calls made

scrapeVars == <<today, input, base, before, callOpts, spc, posts,
                invalidLogged, calls>>

vars == <<pipeVars, scrapeVars>>

\* ---------------------------------------------------------------- helpers

\* A variant of makeDir that never calls mkdirp.
makeDir_Noop(ex, d, ok) == ex

\* makeDir(dir): mkdirp.sync(dir); an error is caught and logged, never thrown.
makeDir(ex, d, ok) == IF ok THEN ex \cup {d} ELSE ex
makeDirLog(ok) == IF ok THEN {} ELSE {"makeDir"}
\* mkdirp of a directory that exists is a no-op; creating one may fail.
MkOutcomes(d) == IF d \in exists THEN {TRUE} ELSE BOOLEAN

\* The tag of the log.error of moveFilesToDir(src, dest)'s catch block.
MoveTag(i) == IF i = "raw" THEN "moveFilesToDir raw" ELSE "moveFilesToDir norm"

\* The renames whose promises moveFilesToDir hands to Promise.all. The arrow
\* function of files.map has a block body without a return, so the array
\* holds undefined for every file: no rename is awaited.
AwaitedMoves(files) == {}

\* A variant of Proceeds that goes on to the next stage after a rejection.
Proceeds_PastFailure(ok) == TRUE

\* try { await a; await b; ... } catch: the next await is reached only when
\* the awaited promise fulfilled; a rejection jumps to the catch block.
Proceeds(ok) == ok

\* Stage prev has settled (ok: fulfilled) and stage is entered.
Enter(stage, prev, ok) ==
    /\ started' = Append(started, stage)
    /\ stageResult' = [stageResult EXCEPT ![prev] = IF ok THEN "ok" ELSE "err",
                                          ![stage] = "running"]

\* A variant of Caught that throws the error again instead of finishing.
Caught_Rethrow(stage) ==
    /\ stageResult' = [stageResult EXCEPT ![stage] = "err"]
    /\ errLog' = errLog \cup {"processDataset"}
    /\ pc' = "crashed"
    /\ UNCHANGED started

\* The catch block of processDataset, then 'Finish processing dataset'.
Caught(stage) ==
    /\ stageResult' = [stageResult EXCEPT ![stage] = "err"]
    /\ errLog' = errLog \cup {"processDataset"}
    /\ pc' = "done"
    /\ UNCHANGED started

\* ------------------------------------------------------- pipeline actions

\* A variant of StartRun whose makeDir has no try / catch: a failed mkdirp
\* is thrown out of getDataset.
StartRun_MakeDirThrows(okMk) ==
    /\ pc \in {"idle", "done"}
    /\ run < MaxRuns
    /\ pending = {}
    /\ run' = run + 1
    /\ started' = <<"Acquire">>
    /\ stageResult' = [s \in StageSet |->
                          IF s # "Acquire" THEN "none"
                          ELSE IF okMk THEN "running" ELSE "err"]
    /\ exists' = makeDir(exists, "raw", okMk)
    /\ errLog' = IF okMk THEN {} ELSE {"makeDir", "processDataset"}
    /\ fileData' = "undefined"
    /\ mv' = [i \in Moves |-> "idle"]
    /\ listed' = [i \in Moves |-> EmptyDir]
    /\ copies' = 0
    /\ failed' = {}
    /\ unhandled' = {}
    /\ pc' = IF okMk THEN "download" ELSE "done"
    /\ UNCHANGED <<fs, skip, pending>>

\* processDataset(options) is called; getDataset makes RAW_DATA_DIR and
\* starts the download.
StartRun(okMk) ==
    /\ pc \in {"idle", "done"}
    /\ run < MaxRuns
    /\ pending = {}
    /\ run' = run + 1
    /\ started' = <<"Acquire">>
    /\ stageResult' = [s \in StageSet |-> IF s = "Acquire" THEN "running" ELSE "none"]
    /\ exists' = makeDir(exists, "raw", okMk)
    /\ errLog' = makeDirLog(okMk)
    /\ fileData' = "undefined"
    /\ mv' = [i \in Moves |-> "idle"]
    /\ listed' = [i \in Moves |-> EmptyDir]
    /\ copies' = 0
    /\ failed' = {}
    /\ unhandled' = {}
    /\ pc' = "download"
    /\ UNCHANGED <<fs, skip, pending>>

\* processDataset is called without an options object: getDataset throws on
\* options.RAW_DATA_DIR and the catch block of processDataset logs it.
StartRunNoOptions ==
    /\ pc \in {"idle", "done"}
    /\ run < MaxRuns
    /\ pending = {}
    /\ run' = run + 1
    /\ started' = <<"Acquire">>
    /\ stageResult' = [s \in StageSet |-> IF s = "Acquire" THEN "err" ELSE "none"]
    /\ errLog' = {"processDataset"}
    /\ fileData' = "undefined"
    /\ mv' = [i \in Moves |-> "idle"]
    /\ listed' = [i \in Moves |-> EmptyDir]
    /\ copies' = 0
    /\ failed' = {}
    /\ unhandled' = {}
    /\ pc' = "done"
    /\ UNCHANGED <<fs, exists, skip, pending>>

\* A variant of DownloadSettle whose catch block throws the error again.
DownloadSettle_Rethrow(ok) ==
    /\ pc = "download"
    /\ fileData' = IF ok THEN "data" ELSE "undefined"
    /\ IF ok
       THEN /\ pc' = "writeFile"
            /\ UNCHANGED <<errLog, stageResult, started>>
       ELSE /\ errLog' = errLog \cup {"download", "processDataset"}
            /\ stageResult' = [stageResult EXCEPT !["Acquire"] = "err"]
            /\ pc' = "done"
            /\ UNCHANGED started
    /\ UNCHANGED <<run, fs, exists, skip, mv, listed, pending, failed,
                   unhandled, copies>>

\* downloadDataset: download(datasetUrl) settles; a failure is logged and
\* fileData stays undefined. writeFile is called either way.
DownloadSettle(ok) ==
    /\ pc = "download"
    /\ fileData' = IF ok THEN "data" ELSE "undefined"
    /\ errLog' = IF ok THEN errLog ELSE errLog \cup {"download"}
    /\ pc' = "writeFile"
    /\ UNCHANGED <<run, started, stageResult, fs, exists, skip, mv, listed,
                   pending, failed, unhandled, copies>>

\* downloadDataset: writeFile(filename, fileData) settles. With fileData
\* undefined the runtime either writes the text 'undefined' or rejects the
\* argument; a failure is logged. getDataset then returns and normalize
\* calls normalizer.run.
WriteSettle(written) ==
    /\ pc = "writeFile"
    /\ written => "raw" \in exists
    /\ fs' = IF written
             THEN [fs EXCEPT !["raw"][DATA_FILE] =
                      IF fileData = "data" THEN Data(run) ELSE UndefinedText]
             ELSE fs
    /\ errLog' = IF written THEN errLog ELSE errLog \cup {"writeFile"}
    /\ fileData' = "undefined"
    /\ Enter("Normalize", "Acquire", TRUE)
    /\ pc' = "normalize"
    /\ UNCHANGED <<run, exists, skip, mv, listed, pending, failed, unhandled, copies>>

\* normalizer.run settles; on success it has written the normalized data.
NormalizeSettle(ok) ==
    /\ pc = "normalize"
    /\ fs' = IF ok THEN [fs EXCEPT !["norm"][DATA_FILE] = Data(run)] ELSE fs
    /\ IF Proceeds(ok)
       THEN /\ Enter("Load", "Normalize", ok)
            /\ pc' = "load"
            /\ UNCHANGED errLog
       ELSE Caught("Normalize")
    /\ UNCHANGED <<run, exists, skip, fileData, mv, listed, pending, failed,
                   unhandled, copies>>

\* loader.run settles; archive then makes its directories and calls
\* moveFilesToDir twice, each call suspending at its readdir.
LoadSettle(ok, okRaw, okNorm) ==
    /\ pc = "load"
    /\ IF Proceeds(ok)
       THEN /\ Enter("Archive", "Load", ok)
            /\ exists' = makeDir(makeDir(exists, "aRaw", okRaw), "aNorm", okNorm)
            /\ errLog' = errLog \cup makeDirLog(okRaw) \cup makeDirLog(okNorm)
            /\ mv' = [i \in Moves |-> "readdir"]
            /\ pc' = "moveFiles"
       ELSE /\ Caught("Load")
            /\ UNCHANGED <<exists, mv>>
    /\ UNCHANGED <<run, fs, skip, fileData, listed, pending, failed, unhandled, copies>>

\* moveFilesToDir: readdir(src) settles. On success one rename per entry is
\* issued at once; on failure the catch block logs and the call returns.
ReaddirSettle(i, ok) ==
    /\ pc = "moveFiles"
    /\ mv[i] = "readdir"
    /\ ok => i \in exists
    /\ IF ok
       THEN /\ listed' = [listed EXCEPT ![i] = fs[i]]
            /\ pending' = pending \cup {<<i, f>> : f \in Entries(fs[i])}
            /\ mv' = [mv EXCEPT ![i] = "awaiting"]
            /\ UNCHANGED errLog
       ELSE /\ errLog' = errLog \cup {MoveTag(i)}
            /\ mv' = [mv EXCEPT ![i] = "returned_err"]
            /\ UNCHANGED <<listed, pending>>
    /\ UNCHANGED <<run, pc, started, stageResult, fs, exists, skip, fileData,
                   failed, unhandled, copies>>

\* One rename settles, whenever the file system gets to it. A rejection
\* reaches moveFilesToDir only if its promise was handed to Promise.all.
RenameSettle(i, f, ok) ==
    /\ <<i, f>> \in pending
    /\ ok => fs[i][f] # Absent /\ Dest(i) \in exists
    /\ pending' = pending \ {<<i, f>>}
    /\ fs' = IF ok
             THEN [fs EXCEPT ![i][f] = Absent, ![Dest(i)][f] = fs[i][f]]
             ELSE fs
    /\ failed' = IF ok THEN failed ELSE failed \cup {<<i, f>>}
    /\ IF ok
       THEN UNCHANGED <<mv, unhandled>>
       ELSE IF f \in AwaitedMoves(Entries(listed[i]))
            THEN /\ mv' = [mv EXCEPT ![i] = IF @ = "awaiting" THEN "rejected" ELSE @]
                 /\ UNCHANGED unhandled
            ELSE /\ unhandled' = unhandled \cup {<<i, f>>}
                 /\ UNCHANGED mv
    /\ UNCHANGED <<run, pc, started, stageResult, exists, skip, fileData,
                   listed, errLog, copies>>

\* moveFilesToDir returns: Promise.all over the mapped array has settled.
MoveReturn(i) ==
    /\ pc = "moveFiles"
    /\ mv[i] \in {"awaiting", "rejected"}
    /\ IF mv[i] = "rejected"
       THEN /\ errLog' = errLog \cup {MoveTag(i)}
            /\ mv' = [mv EXCEPT ![i] = "returned_err"]
       ELSE /\ \A f \in AwaitedMoves(Entries(listed[i])) : <<i, f>> \notin pending
            /\ mv' = [mv EXCEPT ![i] = "returned_ok"]
            /\ UNCHANGED errLog
    /\ UNCHANGED <<run, pc, started, stageResult, fs, exists, skip, fileData,
                   listed, pending, failed, unhandled, copies>>

Returned(i) == mv[i] \in {"returned_ok", "returned_err"}

\* A variant of ArchiveAfterMoves that does not test SKIP_ARCHIVE_DOWNLOAD.
ArchiveAfterMoves_IgnoreSkip(okMk) ==
    /\ pc = "moveFiles"
    /\ \A i \in Moves : Returned(i)
    /\ exists' = makeDir(exists, "aDl", okMk)
    /\ errLog' = errLog \cup makeDirLog(okMk)
    /\ copies' = copies + 1
    /\ pc' = "recursiveCopy"
    /\ UNCHANGED <<run, started, stageResult, fs, skip, fileData, mv, listed,
                   pending, failed, unhandled>>

\* archive: both moveFilesToDir calls have returned. Unless
\* SKIP_ARCHIVE_DOWNLOAD, the download archive directory is made and
\* recursiveCopy starts; otherwise archive returns and the run ends.
ArchiveAfterMoves(okMk) ==
    /\ pc = "moveFiles"
    /\ \A i \in Moves : Returned(i)
    /\ IF skip
       THEN /\ stageResult' = [stageResult EXCEPT !["Archive"] = "ok"]
            /\ pc' = "done"
            /\ UNCHANGED <<exists, errLog, copies>>
       ELSE /\ exists' = makeDir(exists, "aDl", okMk)
            /\ errLog' = errLog \cup makeDirLog(okMk)
            /\ copies' = copies + 1
            /\ pc' = "recursiveCopy"
            /\ UNCHANGED stageResult
    /\ UNCHANGED <<run, started, fs, skip, fileData, mv, listed, pending,
                   failed, unhandled>>

\* A variant of CopySettle that moves the entries instead of copying them.
CopySettle_Move(ok) ==
    /\ pc = "recursiveCopy"
    /\ ok => Entries(fs["dl"]) \cap Entries(fs["aDl"]) = {}
    /\ fs' = IF ok
             THEN [fs EXCEPT !["aDl"] =
                      [f \in Files |-> IF fs["dl"][f] # Absent THEN fs["dl"][f] ELSE @[f]],
                             !["dl"] = EmptyDir]
             ELSE fs
    /\ exists' = IF ok THEN exists \cup {"aDl"} ELSE exists
    /\ errLog' = IF ok THEN errLog ELSE errLog \cup {"recursiveCopy"}
    /\ stageResult' = [stageResult EXCEPT !["Archive"] = "ok"]
    /\ pc' = "done"
    /\ UNCHANGED <<run, started, skip, fileData, mv, listed, pending,
                   failed, unhandled, copies>>

\* recursiveCopy: copy(src, dest) settles. recursive-copy does not overwrite
\* by default, so it succeeds only when no entry exists at the destination;
\* a failure is logged (and is taken to have copied nothing).
CopySettle(ok) ==
    /\ pc = "recursiveCopy"
    /\ ok => Entries(fs["dl"]) \cap Entries(fs["aDl"]) = {}
    /\ fs' = IF ok
             THEN [fs EXCEPT !["aDl"] =
                      [f \in Files |-> IF fs["dl"][f] # Absent THEN fs["dl"][f] ELSE @[f]]]
             ELSE fs
    /\ exists' = IF ok THEN exists \cup {"aDl"} ELSE exists
    /\ errLog' = IF ok THEN errLog ELSE errLog \cup {"recursiveCopy"}
    /\ stageResult' = [stageResult EXCEPT !["Archive"] = "ok"]
    /\ pc' = "done"
    /\ UNCHANGED <<run, started, skip, fileData, mv, listed, pending,
                   failed, unhandled, copies>>

\* ------------------------------------------------------ schedule resolver

\* JavaScript values of the payload fields, tagged by kind. A date the
\* caller wrote is kept apart from a date format(..., 'MM/DD/YYYY') made.
Undefined == <<"undefined", 0>>
NaN == <<"NaN", 0>>
True == <<"boolean", 1>>
Num(n) == <<"number", n>>
Literal(d) == <<"literal date", d>>
Formatted(d) == <<"MM/DD/YYYY", d>>

Days == 1..MaxDay

\* The option strings REQUESTS_PER_DAY and REQUEST_DEPTHS_PER_DAY, as
\* sequences of characters; <<>> is an option left unset.
DigitChars == <<"0", "1", "2", "3", "4", "5", "6", "7", "8", "9">>
IsDigit(c) == \E k \in 1..Len(DigitChars) : DigitChars[k] = c
DigitVal(c) == (CHOOSE k \in 1..Len(DigitChars) : DigitChars[k] = c) - 1

RECURSIVE DigitPrefix(_, _)
\* The value of the longest prefix of digits of s, continuing from acc.
DigitPrefix(s, acc) ==
    IF s = <<>> \/ ~IsDigit(Head(s)) THEN acc
    ELSE DigitPrefix(Tail(s), acc * 10 + DigitVal(Head(s)))

\* parseInt(s, 10): an optional sign, then the longest prefix of digits;
\* NaN when there is no digit.
parseInt(s) ==
    LET neg == s # <<>> /\ Head(s) = "-"
        t == IF s # <<>> /\ Head(s) \in {"-", "+"} THEN Tail(s) ELSE s
    IN IF t = <<>> \/ ~IsDigit(Head(t)) THEN NaN
       ELSE Num(IF neg THEN 0 - DigitPrefix(t, 0) ELSE DigitPrefix(t, 0))

\* a * n for a JavaScript number a and an integer n.
Times(a, n) == IF a = NaN THEN NaN ELSE Num(a[2] * n)

Abs(n) == IF n < 0 THEN 0 - n ELSE n

\* differenceInDays(dateLeft, dateRight) of two calendar dates: the number
\* of full days from dateRight to dateLeft, negative when dateLeft is earlier.
differenceInDays(l, r) == l[2] - r[2]

\* format(startOfToday(), 'MM/DD/YYYY') and format(endOfToday(), ...): the
\* first and the last instant of the current day, printed without the time.
startOfToday(day) == <<day, "00:00:00.000">>
endOfToday(day) == <<day, "23:59:59.999">>
format(instant) == Formatted(instant[1])

getDailyOptions(data, requestsPerDay, requestDepthsPerDay, day) ==
    [data EXCEPT !.startDate = format(startOfToday(day)),
                 !.endDate = format(endOfToday(day)),
                 !.maxRequestsPerCrawl = requestsPerDay,
                 !.maxRequestDepth = requestDepthsPerDay]

\* A variant of getDateRangeOptions that leaves out Math.abs.
getDateRangeOptions_NoAbs(data, requestsPerDay, requestDepthsPerDay, startDate, endDate) ==
    LET numOfDays == differenceInDays(startDate, endDate) + 1
    IN [data EXCEPT !.startDate = startDate,
                    !.endDate = endDate,
                    !.maxRequestsPerCrawl = Times(requestsPerDay, numOfDays),
                    !.maxRequestDepth = Times(requestDepthsPerDay, numOfDays)]

getDateRangeOptions(data, requestsPerDay, requestDepthsPerDay, startDate, endDate) ==
    LET numOfDays == Abs(differenceInDays(startDate, endDate)) + 1
    IN [data EXCEPT !.startDate = startDate,
                    !.endDate = endDate,
                    !.maxRequestsPerCrawl = Times(requestsPerDay, numOfDays),
                    !.maxRequestDepth = Times(requestDepthsPerDay, numOfDays)]

\* ----------------------------------------------------------------- scrape

Truthy(v) == v # Undefined

\* A variant of Mode that tests the date pair before DAILY.
Mode_RangeFirst(o) ==
    IF Truthy(o.START_DATE) /\ Truthy(o.END_DATE) THEN "range"
    ELSE IF o.DAILY THEN "daily"
    ELSE "invalid"

\* The mode scrape selects: the first branch of its if / else if / else.
Mode(o) ==
    IF o.DAILY THEN "daily"
    ELSE IF Truthy(o.START_DATE) /\ Truthy(o.END_DATE) THEN "range"
    ELSE "invalid"

\* With DRY_RUN, the test-run flag and log level 5 are set on data.
DryRunOverlay(data, o) ==
    IF o.DRY_RUN THEN [data EXCEPT !.isTestRun = True, !.logLevel = Num(5)]
    ELSE data

\* A variant of Resolve that falls back to daily mode when no mode is set.
Resolve_DefaultsToDaily(data, o, day) ==
    LET requestsPerDay == parseInt(o.REQUESTS_PER_DAY)
        requestDepthsPerDay == parseInt(o.REQUEST_DEPTHS_PER_DAY)
        d == DryRunOverlay(data, o)
    IN IF Mode(o) = "range"
       THEN getDateRangeOptions(d, requestsPerDay, requestDepthsPerDay,
                                o.START_DATE, o.END_DATE)
       ELSE getDailyOptions(d, requestsPerDay, requestDepthsPerDay, day)

\* data as scrape leaves it before the post.
Resolve(data, o, day) ==
    LET requestsPerDay == parseInt(o.REQUESTS_PER_DAY)
        requestDepthsPerDay == parseInt(o.REQUEST_DEPTHS_PER_DAY)
        d == DryRunOverlay(data, o)
    IN CASE Mode(o) = "daily" ->
              getDailyOptions(d, requestsPerDay, requestDepthsPerDay, day)
         [] Mode(o) = "range" ->
              getDateRangeOptions(d, requestsPerDay, requestDepthsPerDay,
                                  o.START_DATE, o.END_DATE)
         [] OTHER -> d

BlankTemplate ==
    [startDate |-> Undefined, endDate |-> Undefined,
     maxRequestsPerCrawl |-> Undefined, maxRequestDepth |-> Undefined,
     isTestRun |-> Undefined, logLevel |-> Undefined]

\* Base templates a caller may hold in config.INPUT.
Templates ==
    {BlankTemplate,
     [BlankTemplate EXCEPT !.startDate = Literal(1), !.endDate = Literal(2),
                           !.maxRequestsPerCrawl = Num(7),
                           !.maxRequestDepth = Num(1)]}

Amounts == {<<"1", "2">>, <<>>}
Depths == {<<"3", "x">>}
DateOptions == {Undefined} \cup {Literal(d) : d \in Days}

Options ==
    [DRY_RUN : BOOLEAN, DAILY : BOOLEAN,
     START_DATE : DateOptions, END_DATE : DateOptions,
     REQUESTS_PER_DAY : Amounts, REQUEST_DEPTHS_PER_DAY : Depths]

NoOptions ==
    [DRY_RUN |-> FALSE, DAILY |-> FALSE, START_DATE |-> Undefined,
     END_DATE |-> Undefined, REQUESTS_PER_DAY |-> <<>>,
     REQUEST_DEPTHS_PER_DAY |-> <<"3", "x">>]

\* scrape(options, config) up to its await: the overlay, the mode branch and
\* the call of axios.post with data. data is config.INPUT itself, not a copy
\* of it, so what scrape assigns to data stays in the caller's object.
ScrapeCall(o) ==
    /\ spc = "idle"
    /\ calls < MaxCalls
    /\ calls' = calls + 1
    /\ before' = input
    /\ callOpts' = o
    /\ LET data == Resolve(input, o, today)
       IN /\ input' = data
          /\ posts' = <<data>>
    /\ invalidLogged' = (Mode(o) = "invalid")
    /\ spc' = "posting"
    /\ UNCHANGED <<today, base>>

\* axios.post settles; scrape has no handler, so a rejection is scrape's.
PostSettle(ok) ==
    /\ spc = "posting"
    /\ spc' = IF ok THEN "returned" ELSE "rejected"
    /\ UNCHANGED <<today, input, base, before, callOpts, posts, invalidLogged,
                   calls>>

\* The caller takes the settled call's outcome; the record of the call is
\* dropped, config.INPUT stays as the call left it.
ScrapeSettled ==
    /\ spc \in {"returned", "rejected"}
    /\ spc' = "idle"
    /\ before' = input
    /\ callOpts' = NoOptions
    /\ posts' = <<>>
    /\ invalidLogged' = FALSE
    /\ UNCHANGED <<today, input, base, calls>>

\* Midnight passes between two calls.
Tick ==
    /\ spc = "idle"
    /\ today < MaxDay
    /\ today' = today + 1
    /\ UNCHANGED <<input, base, before, callOpts, spc, posts, invalidLogged,
                   calls>>

\* -------------------------------------------------------- specifications

ScrapeStart(t) ==
    /\ today = 1
    /\ input = t
    /\ base = t
    /\ before = t
    /\ callOpts = NoOptions
    /\ spc = "idle"
    /\ posts = <<>>
    /\ invalidLogged = FALSE
    /\ calls = 0

PipeStart(R, N, sk) ==
    /\ run = 0
    /\ pc = "idle"
    /\ started = <<>>
    /\ stageResult = [s \in StageSet |-> "none"]
    /\ fs = [d \in Dirs |->
               CASE d = "raw" -> StaleDir(R)
                 [] d = "norm" -> StaleDir(N)
                 [] d = "dl" -> StaleDir(Files)
                 [] OTHER -> EmptyDir]
    /\ exists = IF R = {} THEN {"norm", "dl"} ELSE {"raw", "norm", "dl"}
    /\ skip = sk
    /\ fileData = "undefined"
    /\ mv = [i \in Moves |-> "idle"]
    /\ listed = [i \in Moves |-> EmptyDir]
    /\ pending = {}
    /\ failed = {}
    /\ unhandled = {}
    /\ errLog = {}
    /\ copies = 0

\* Before the first run the working directories hold nothing, or an entry
\* an earlier process left.
Init ==
    /\ \E R \in {{}, {"other"}}, sk \in BOOLEAN : PipeStart(R, {"other"}, sk)
    /\ ScrapeStart(BlankTemplate)

Next ==
    \/ \E okMk \in MkOutcomes("raw") : StartRun(okMk) /\ UNCHANGED scrapeVars
    \/ StartRunNoOptions /\ UNCHANGED scrapeVars
    \/ \E ok \in BOOLEAN : DownloadSettle(ok) /\ UNCHANGED scrapeVars
    \/ \E written \in BOOLEAN : WriteSettle(written) /\ UNCHANGED scrapeVars
    \/ \E ok \in BOOLEAN : NormalizeSettle(ok) /\ UNCHANGED scrapeVars
    \/ \E ok \in BOOLEAN, okRaw \in MkOutcomes("aRaw"), okNorm \in MkOutcomes("aNorm") :
          LoadSettle(ok, okRaw, okNorm) /\ UNCHANGED scrapeVars
    \/ \E i \in Moves, ok \in BOOLEAN : ReaddirSettle(i, ok) /\ UNCHANGED scrapeVars
    \/ \E i \in Moves, f \in Files, ok \in BOOLEAN :
          RenameSettle(i, f, ok) /\ UNCHANGED scrapeVars
    \/ \E i \in Moves : MoveReturn(i) /\ UNCHANGED scrapeVars
    \/ \E okMk \in MkOutcomes("aDl") : ArchiveAfterMoves(okMk) /\ UNCHANGED scrapeVars
    \/ \E ok \in BOOLEAN : CopySettle(ok) /\ UNCHANGED scrapeVars

Spec == Init /\ [][Next]_vars

\* The awaited and the fired calls of a run: every step that is the settling
\* of an external call or the resumption of a suspended function.
Settles ==
    \/ \E ok \in BOOLEAN : DownloadSettle(ok) /\ UNCHANGED scrapeVars
    \/ \E written \in BOOLEAN : WriteSettle(written) /\ UNCHANGED scrapeVars
    \/ \E ok \in BOOLEAN : NormalizeSettle(ok) /\ UNCHANGED scrapeVars
    \/ \E ok \in BOOLEAN, okRaw \in MkOutcomes("aRaw"), okNorm \in MkOutcomes("aNorm") :
          LoadSettle(ok, okRaw, okNorm) /\ UNCHANGED scrapeVars
    \/ \E i \in Moves, ok \in BOOLEAN : ReaddirSettle(i, ok) /\ UNCHANGED scrapeVars
    \/ \E i \in Moves, f \in Files, ok \in BOOLEAN :
          RenameSettle(i, f, ok) /\ UNCHANGED scrapeVars
    \/ \E i \in Moves : MoveReturn(i) /\ UNCHANGED scrapeVars
    \/ \E okMk \in MkOutcomes("aDl") : ArchiveAfterMoves(okMk) /\ UNCHANGED scrapeVars
    \/ \E ok \in BOOLEAN : CopySettle(ok) /\ UNCHANGED scrapeVars

\* The pipeline under the assumption that every external call of a run
\* eventually settles: an outstanding call is not left outstanding for ever.
\* Nothing obliges the caller to start a run.
\* The first run starts with RAW_DATA_DIR empty and a file left in each of
\* the other two directories.
InitLive ==
    /\ \E sk \in BOOLEAN : PipeStart({}, {"other"}, sk)
    /\ ScrapeStart(BlankTemplate)

SpecLive == InitLive /\ [][Next]_vars /\ WF_vars(Settles)

InitScrape ==
    /\ PipeStart({}, {}, FALSE)
    /\ \E t \in Templates : ScrapeStart(t)

NextScrape ==
    \/ \E o \in Options : ScrapeCall(o) /\ UNCHANGED pipeVars
    \/ \E ok \in BOOLEAN : PostSettle(ok) /\ UNCHANGED pipeVars
    \/ ScrapeSettled /\ UNCHANGED pipeVars
    \/ Tick /\ UNCHANGED pipeVars

SpecScrape == InitScrape /\ [][NextScrape]_vars

\* ----------------------------------------------------------------- claims

\* C1: in every run of processDataset the stages start in the order Acquire,
\* Normalize, Load, Archive, each only after the one before it has settled
\* successfully, and none twice: the stages started so far are a prefix of
\* that order, every stage but the last started has fulfilled, and no later
\* stage has begun.
C1_StageOrder ==
    /\ \E n \in 0..Len(Stages) : started = SubSeq(Stages, 1, n)
    /\ \A k \in 1..Len(Stages) :
          /\ k < Len(started) => stageResult[Stages[k]] = "ok"
          /\ k > Len(started) => stageResult[Stages[k]] = "none"

\* A second run that went through all four stages.
C1_Witness ==
    /\ run = 2
    /\ pc = "done"
    /\ started = Stages
    /\ stageResult["Archive"] = "ok"

\* C2: when moveFilesToDir has returned on its success path, every entry
\* readdir found in src is absent from src and present in dest with the
\* content it had in src (whatever dest held under that name before).
C2_MovedOnReturn ==
    \A i \in Moves :
        mv[i] = "returned_ok" =>
            \A f \in Entries(listed[i]) :
                /\ fs[i][f] = Absent
                /\ fs[Dest(i)][f] = listed[i][f]

\* C3: the replication of the download directory starts only after every
\* file move of both relocations has completed: while recursiveCopy is
\* under way no rename is still pending.
C3_CopyAfterMoves == pc = "recursiveCopy" => pending = {}

\* C4: every exception of a run is caught and logged by processDataset and
\* none escapes: a stage that rejected is in processDataset's error log, and
\* no promise of the run (a file move of archive included) rejects without
\* a handler.
C4_NothingEscapes ==
    /\ \A k \in 1..Len(Stages) :
          stageResult[Stages[k]] = "err" => "processDataset" \in errLog
    /\ unhandled = {}

\* C5: when the move of one file fails, all entries of the directory have
\* still had their move issued, and once moveFilesToDir has returned the
\* failure is in the log of moveFilesToDir's catch block.
C5_FailedMoveLogged ==
    \A i \in Moves : \A f \in Files :
        (<<i, f>> \in failed /\ Returned(i)) =>
            /\ MoveTag(i) \in errLog
            /\ \A g \in Entries(listed[i]) :
                  <<i, g>> \in pending \/ <<i, g>> \in failed \/ fs[i][g] = Absent

\* Exactly one of DAILY and the pair START_DATE, END_DATE is set.
ExactlyOneMode(o) == o.DAILY # (o.START_DATE # Undefined /\ o.END_DATE # Undefined)

\* C6: a call whose options set both DAILY and the date pair, or neither, is
\* rejected as a configuration error and no mode is chosen for the caller:
\* the error is logged and the schedule fields of the payload are not those
\* of a mode, but what config.INPUT held.
C6_AmbiguousOrUnsetRejected ==
    (spc # "idle" /\ ~ExactlyOneMode(callOpts)) =>
        /\ invalidLogged
        /\ posts[1].startDate = before.startDate
        /\ posts[1].endDate = before.endDate
        /\ posts[1].maxRequestsPerCrawl = before.maxRequestsPerCrawl
        /\ posts[1].maxRequestDepth = before.maxRequestDepth

\* The days from s to e, both included, in either order.
SpanDays(s, e) == IF e[2] >= s[2] THEN e[2] - s[2] + 1 ELSE s[2] - e[2] + 1

Swapped(o) == [o EXCEPT !.START_DATE = o.END_DATE, !.END_DATE = o.START_DATE]

\* C7: in date-range mode the submitted payload has maxRequestsPerCrawl =
\* r * (|end - start| + 1) and maxRequestDepth = d * (|end - start| + 1),
\* the same budgets as with start and end swapped, and startDate and
\* endDate are the caller's values unchanged.
C7_RangeBudgets ==
    (/\ spc # "idle"
     /\ ~callOpts.DAILY
     /\ callOpts.START_DATE # Undefined
     /\ callOpts.END_DATE # Undefined) =>
        LET p == posts[1]
            n == SpanDays(callOpts.START_DATE, callOpts.END_DATE)
            q == Resolve(before, Swapped(callOpts), today)
        IN /\ p.maxRequestsPerCrawl = Times(parseInt(callOpts.REQUESTS_PER_DAY), n)
           /\ p.maxRequestDepth = Times(parseInt(callOpts.REQUEST_DEPTHS_PER_DAY), n)
           /\ p.startDate = callOpts.START_DATE
           /\ p.endDate = callOpts.END_DATE
           /\ q.maxRequestsPerCrawl = p.maxRequestsPerCrawl
           /\ q.maxRequestDepth = p.maxRequestDepth

\* A range call with the later date as START_DATE: 12 requests a day over
\* two days.
C7_Witness ==
    /\ spc = "posting"
    /\ ~callOpts.DAILY
    /\ callOpts.START_DATE = Literal(2)
    /\ callOpts.END_DATE = Literal(1)
    /\ posts[1].maxRequestsPerCrawl = Num(24)
    /\ posts[1].maxRequestDepth = Num(6)

\* C8: with DAILY set the submitted payload has startDate = endDate = the
\* current calendar day, maxRequestsPerCrawl = requestsPerDay and
\* maxRequestDepth = requestDepthsPerDay, whatever START_DATE and END_DATE.
C8_DailyUnscaled ==
    (spc # "idle" /\ callOpts.DAILY) =>
        LET p == posts[1]
        IN /\ p.startDate = Formatted(today)
           /\ p.endDate = Formatted(today)
           /\ p.maxRequestsPerCrawl = parseInt(callOpts.REQUESTS_PER_DAY)
           /\ p.maxRequestDepth = parseInt(callOpts.REQUEST_DEPTHS_PER_DAY)

\* A daily call on day 2 whose options also carry a two-day date pair.
C8_Witness ==
    /\ spc = "posting"
    /\ callOpts.DAILY
    /\ callOpts.START_DATE = Literal(1)
    /\ callOpts.END_DATE = Literal(2)
    /\ today = 2
    /\ posts[1].maxRequestsPerCrawl = Num(12)

\* C9: a call with neither DAILY nor both dates logs an error and submits
\* exactly one payload, whose startDate, endDate, maxRequestsPerCrawl and
\* maxRequestDepth are those config.INPUT held when the call began.
C9_InvalidSubmitsTemplate ==
    (/\ spc # "idle"
     /\ ~callOpts.DAILY
     /\ ~(callOpts.START_DATE # Undefined /\ callOpts.END_DATE # Undefined)) =>
        /\ invalidLogged
        /\ Len(posts) = 1
        /\ posts[1].startDate = before.startDate
        /\ posts[1].endDate = before.endDate
        /\ posts[1].maxRequestsPerCrawl = before.maxRequestsPerCrawl
        /\ posts[1].maxRequestDepth = before.maxRequestDepth

\* A call with START_DATE alone, on a template that holds dates and budgets.
C9_Witness ==
    /\ spc = "posting"
    /\ ~callOpts.DAILY
    /\ callOpts.START_DATE = Literal(2)
    /\ callOpts.END_DATE = Undefined
    /\ before.startDate = Literal(1)
    /\ before.maxRequestsPerCrawl = Num(7)
    /\ invalidLogged

\* C10: the payload of a call is computed from that call's options, the
\* current date and the base template, and nothing an earlier call overlaid
\* persists: a call without DRY_RUN submits the test-run flag and the log
\* level as the base template has them.
C10_PayloadFresh ==
    spc # "idle" =>
        /\ posts[1] = Resolve(base, callOpts, today)
        /\ ~callOpts.DRY_RUN =>
              /\ posts[1].isTestRun = base.isTestRun
              /\ posts[1].logLevel = base.logLevel

C12_RerunNotBlocked ==
    (run >= 2 /\ pc = "recursiveCopy") =>
        Entries(fs["dl"]) \cap Entries(fs["aDl"]) = {}

\* C13: archive never removes or changes an entry of DOWNLOAD_DIR, and
\* entries are removed from no directory but RAW_DATA_DIR and
\* NORMALIZED_DATA_DIR.
C13_DownloadUntouched ==
    [][/\ fs'["dl"] = fs["dl"]
       /\ \A d \in Dirs \ Moves : Entries(fs[d]) \subseteq Entries(fs'[d])]_vars

\* An archive that moved the raw data file and copied the download directory.
C13_Witness ==
    /\ pc = "done"
    /\ stageResult["Archive"] = "ok"
    /\ fs["raw"][DATA_FILE] = Absent
    /\ fs["aRaw"][DATA_FILE] = Data(1)
    /\ Entries(fs["aDl"]) = Files
    /\ Entries(fs["dl"]) = Files

\* C14: with SKIP_ARCHIVE_DOWNLOAD set, archive neither makes the download
\* archive directory nor copies from DOWNLOAD_DIR; without it, an archive
\* that has returned has called recursiveCopy exactly once.
C14_SkipGatesReplication ==
    /\ skip => /\ copies = 0
               /\ pc # "recursiveCopy"
               /\ "aDl" \notin exists
               /\ fs["aDl"] = EmptyDir
    /\ (~skip /\ stageResult["Archive"] = "ok") => copies = 1
    /\ (~skip /\ pc = "recursiveCopy") => copies = 1
    /\ copies <= 1

\* A second run with SKIP_ARCHIVE_DOWNLOAD whose archive has returned.
C14_Witness ==
    /\ skip
    /\ run = 2
    /\ pc = "done"
    /\ stageResult["Archive"] = "ok"
    /\ \E f \in Files : fs["aRaw"][f] # Absent

\* C15: makeDir never throws: a run in which a makeDir failed and logged it
\* has neither its Acquire nor its Archive stage rejected by it; and makeDir
\* on RAW_DATA_DIR when an earlier call has made it logs nothing and leaves
\* it present, as every directory once made stays present.
C15_MakeDirNeverThrows ==
    /\ []("makeDir" \in errLog =>
             /\ stageResult["Acquire"] \in {"running", "ok"}
             /\ stageResult["Archive"] # "err")
    /\ [][/\ exists \subseteq exists'
          /\ (pc \in {"idle", "done"} /\ pc' = "download" /\ "raw" \in exists)
                => "makeDir" \notin errLog']_vars

\* A second run that made RAW_DATA_DIR again and went on into archive after
\* the creation of the raw archive directory failed.
C15_Witness ==
    /\ run = 2
    /\ "raw" \in exists
    /\ "aRaw" \notin exists
    /\ "makeDir" \in errLog
    /\ pc = "moveFiles"
    /\ stageResult["Archive"] = "running"

\* C16: when the download failed, the failure is logged, getDataset returns
\* normally (Acquire is not rejected) and, once the write has settled,
\* Normalize is the stage started next.
C16_DownloadFailureGoesOn ==
    "download" \in errLog =>
        /\ stageResult["Acquire"] \in {"running", "ok"}
        /\ pc # "writeFile" =>
              /\ stageResult["Acquire"] = "ok"
              /\ Len(started) >= 2
              /\ started[2] = "Normalize"

\* The download failed and normalizer.run has been called.
C16_Witness ==
    /\ "download" \in errLog
    /\ pc = "normalize"
    /\ stageResult["Normalize"] = "running"

\* C17: a failure of axios.post is caught inside scrape: scrape never
\* rejects towards its caller.
C17_PostFailureCaught == spc # "rejected"

\* Normalize or Load was rejected in the current run.
NormalizeOrLoadFailed ==
    stageResult["Normalize"] = "err" \/ stageResult["Load"] = "err"

\* C18: when normalize or load fails, no later stage is started and archive
\* never runs in that run: the run has ended, no relocation or replication
\* was started, and for the rest of the run no directory changes, so the
\* entries of RAW_DATA_DIR and NORMALIZED_DATA_DIR stay in place.
C18_FailureStopsRun ==
    /\ [](NormalizeOrLoadFailed =>
             /\ pc = "done"
             /\ stageResult["Archive"] = "none"
             /\ (stageResult["Normalize"] = "err" => stageResult["Load"] = "none")
             /\ \A i \in Moves : mv[i] = "idle"
             /\ pending = {}
             /\ copies = 0)
    /\ [][(NormalizeOrLoadFailed /\ run' = run) => fs' = fs]_vars

\* Load failed after the raw and the normalized data of the run were
\* written, and both are still in their directories.
C18_Witness ==
    /\ pc = "done"
    /\ stageResult["Load"] = "err"
    /\ fs["raw"][DATA_FILE] = Data(run)
    /\ fs["norm"][DATA_FILE] = Data(run)

\* The positions of processDataset at which it awaits an external call.
Running == pc \notin {"idle", "done"}

\* The order in which processDataset passes through its awaits.
PcSteps ==
    {<<"idle", "download">>, <<"idle", "done">>,
     <<"done", "download">>,
     <<"download", "writeFile">>, <<"writeFile", "normalize">>,
     <<"normalize", "load">>, <<"normalize", "done">>,
     <<"load", "moveFiles">>, <<"load", "done">>,
     <<"moveFiles", "recursiveCopy">>, <<"moveFiles", "done">>,
     <<"recursiveCopy", "done">>}

\* C19: when every external call settles, a run that has started reaches
\* 'Finish processing dataset', whatever failed; and a run passes an await
\* only by the awaited call settling, so one that never settles keeps the
\* run from ending: the position changes only along the order of the
\* awaits, and archive goes past its two relocations only when both have
\* returned.
C19_RunEnds ==
    /\ Running ~> (pc = "done")
    /\ [][pc' # pc =>
             /\ <<pc, pc'>> \in PcSteps
             /\ pc = "moveFiles" => \A i \in Moves : Returned(i)]_vars

\* A run that ended although the download, a directory creation and a
\* relocation failed.
C19_Witness ==
    /\ pc = "done"
    /\ stageResult["Archive"] = "ok"
    /\ {"download", "makeDir"} \subseteq errLog
    /\ \E i \in Moves : mv[i] = "returned_err"

\* C20: when the download failed no write to RAW_DATA_DIR/DATA_FILE is
\* attempted: the step that follows the failed download changes no file and
\* logs no write failure.
C20_NoWriteWithoutData ==
    [][("download" \in errLog /\ pc = "writeFile") =>
          /\ fs' = fs
          /\ "writeFile" \notin errLog']_vars

====
